---------------------------- MODULE Spec2Model ----------------------------
(***************************************************************************)
(* apitkt: APIClient (client.py) and LoggedClient (log.py).                *)
(*                                                                         *)
(* Python strings that the code inspects (paths, URLs, header and payload  *)
(* keys, content types, messages) are sequences of one-character strings,  *)
(* so that startswith / endswith / lower / upper / "in" / slicing are      *)
(* computed.  Values that the code only passes along (header values,       *)
(* payload values, the low-level exception) are atomic strings.            *)
(***************************************************************************)
EXTENDS Integers, Sequences, FiniteSets, TLC

VARIABLES
    base_arg,          \* the base_url argument given to __init__
    headers_arg,       \* the headers argument given to __init__
    base_url,          \* self.base_url
    client_headers,    \* self._client.headers (the transport's header store)
    raise_for_status,  \* self.raise_for_status
    log_headers,       \* self.log_headers      (LoggedClient)
    log_body_preview,  \* self.log_body_preview (LoggedClient)
    closed,            \* whether self._client has been closed
    scope,             \* the "with client as c:" statement around the client
    call,              \* arguments and transport outcome of the last request
    sent,              \* what the transport was handed, and how many times
    result,            \* what the last request gave its caller
    calls,             \* number of LoggedClient.request calls made
    wrapped_ok,        \* ... of them, those whose super().request returned
    emitted,           \* number of "api_call" records given to the logger
    last_record,       \* the last record given to the logger
    probe              \* _build_url applied on its own, once and twice

vars == << base_arg, headers_arg, base_url, client_headers, raise_for_status,
           log_headers, log_body_preview, closed, scope, call, sent, result,
           calls, wrapped_ok, emitted, last_record, probe >>

client_vars == << base_arg, headers_arg, base_url, client_headers,
                  raise_for_status, log_headers, log_body_preview >>

request_vars == << call, sent, result, calls, wrapped_ok, emitted,
                   last_record >>

---------------------------------------------------------------------------
(* Bounds of the model.                                                    *)

MaxTail == 2       \* longest tail appended to a path prefix
MaxSlashes == 2    \* most trailing slashes of a base_url argument
MaxKeys == 2       \* most keys of a header or payload mapping
MaxCalls == 2      \* LoggedClient.request calls counted in one behaviour
MaxElapsed == 1    \* largest elapsed time (in 0.01 ms) the clock reports

---------------------------------------------------------------------------
(* str primitives                                                          *)

Letters ==
    << <<"a","A">>, <<"b","B">>, <<"c","C">>, <<"d","D">>, <<"e","E">>,
       <<"f","F">>, <<"g","G">>, <<"h","H">>, <<"i","I">>, <<"j","J">>,
       <<"k","K">>, <<"l","L">>, <<"m","M">>, <<"n","N">>, <<"o","O">>,
       <<"p","P">>, <<"q","Q">>, <<"r","R">>, <<"s","S">>, <<"t","T">>,
       <<"u","U">>, <<"v","V">>, <<"w","W">>, <<"x","X">>, <<"y","Y">>,
       <<"z","Z">> >>

\* upper-case letter -> lower-case letter, and the other way round
ToLower ==
    [c \in {Letters[i][2] : i \in 1..Len(Letters)} |->
        Letters[CHOOSE i \in 1..Len(Letters) : Letters[i][2] = c][1]]

ToUpper ==
    [c \in {Letters[i][1] : i \in 1..Len(Letters)} |->
        Letters[CHOOSE i \in 1..Len(Letters) : Letters[i][1] = c][2]]

LowerChar(c) == IF c \in DOMAIN ToLower THEN ToLower[c] ELSE c

UpperChar(c) == IF c \in DOMAIN ToUpper THEN ToUpper[c] ELSE c

\* str.lower()
Lower(s) == [i \in 1..Len(s) |-> LowerChar(s[i])]

\* str.upper()
Upper(s) == [i \in 1..Len(s) |-> UpperChar(s[i])]

\* s.startswith(prefix)
StartsWith(s, prefix) ==
    /\ Len(prefix) <= Len(s)
    /\ SubSeq(s, 1, Len(prefix)) = prefix

\* s.endswith(suffix)
EndsWith(s, suffix) ==
    /\ Len(suffix) <= Len(s)
    /\ SubSeq(s, Len(s) - Len(suffix) + 1, Len(s)) = suffix

\* needle in s
Contains(s, needle) ==
    \E i \in 0..(Len(s) - Len(needle)) :
        SubSeq(s, i + 1, i + Len(needle)) = needle

\* s[:n] for n >= 0
Take(s, n) == SubSeq(s, 1, IF n < Len(s) THEN n ELSE Len(s))

\* s[:-1]
DropLast(s) == SubSeq(s, 1, Len(s) - 1)

SLASH == <<"/">>
HTTP == <<"h","t","t","p",":","/","/">>
HTTPS == <<"h","t","t","p","s",":","/","/">>
ELLIPSIS == <<".",".",".">>

---------------------------------------------------------------------------
(* APIClient.__init__                                                      *)

\* arg.rstrip("/")
RECURSIVE StripAllSlashes(_)
StripAllSlashes(arg) ==
    IF EndsWith(arg, SLASH) THEN StripAllSlashes(DropLast(arg)) ELSE arg

\* client.py 33-36: one trailing slash is cut from the argument
StoredBaseUrl(arg) == IF EndsWith(arg, SLASH) THEN DropLast(arg) ELSE arg

---------------------------------------------------------------------------
(* APIClient._build_url                                                    *)

\* _build_url without the test for a leading "/"
BuildUrlAlwaysPrefixed(path) ==
    IF StartsWith(path, HTTP) \/ StartsWith(path, HTTPS)
    THEN path
    ELSE SLASH \o path

\* client.py 47-52
_build_url(path) ==
    IF StartsWith(path, HTTP) \/ StartsWith(path, HTTPS)
    THEN path
    ELSE IF ~StartsWith(path, SLASH)
         THEN SLASH \o path
         ELSE path

---------------------------------------------------------------------------
(* dict                                                                    *)
(*                                                                         *)
(* A mapping is a function from keys to values.  A key records its Python  *)
(* type, because _redact_mapping calls key.lower(), which only str has.   *)

StrKey(chars) == [type |-> "str", chars |-> chars]
IntKey(chars) == [type |-> "int", chars |-> chars]

EmptyDict == << >>

\* a.update(b); the result is the updated a
Update(a, b) ==
    [k \in (DOMAIN a) \cup (DOMAIN b) |-> IF k \in DOMAIN b THEN b[k] ELSE a[k]]

\* the name a header has in the mapping view of the transport's header
\* store: httpx.Headers.keys() yields every name in lower case
StoreName(k) == StrKey(Lower(k.chars))

\* The headers httpx.Client (httpx 0.28.1) puts into its store before the
\* caller's: accept, accept-encoding, connection and user-agent.
HTTPX_DEFAULT_HEADERS ==
    (StrKey(<<"a","c","c","e","p","t">>) :> "*/*")
    @@ (StrKey(<<"a","c","c","e","p","t","-",
                 "e","n","c","o","d","i","n","g">>)
            :> "gzip, deflate, br, zstd")
    @@ (StrKey(<<"c","o","n","n","e","c","t","i","o","n">>) :> "keep-alive")
    @@ (StrKey(<<"u","s","e","r","-","a","g","e","n","t">>)
            :> "python-httpx/0.28.1")

\* The caller's headers under the names the store gives them.  The
\* constructor arguments of the model hold no two names that differ in
\* case only, so no two values share a stored name.
StoredHeaders(headers) ==
    [n \in {StoreName(k) : k \in DOMAIN headers} |->
        headers[CHOOSE k \in DOMAIN headers : StoreName(k) = n]]

\* self._client.headers after httpx.Client(headers=dict(headers or {}))
\* (client.py 40-45), as Mapping: the defaults of httpx, updated with the
\* caller's headers; names in lower case, values as given.
TransportHeaders(headers) ==
    Update(HTTPX_DEFAULT_HEADERS, StoredHeaders(headers))

---------------------------------------------------------------------------
(* log.py: redaction                                                       *)

AUTHORIZATION ==
    <<"a","u","t","h","o","r","i","z","a","t","i","o","n">>
PROXY_AUTHORIZATION ==
    <<"p","r","o","x","y","-">> \o AUTHORIZATION
PASSWORD == <<"p","a","s","s","w","o","r","d">>
TOKEN == <<"t","o","k","e","n">>
ACCESS_TOKEN == <<"a","c","c","e","s","s","_">> \o TOKEN
REFRESH_TOKEN == <<"r","e","f","r","e","s","h","_">> \o TOKEN
SECRET == <<"s","e","c","r","e","t">>

SENSITIVE_HEADER_KEYS == {AUTHORIZATION, PROXY_AUTHORIZATION}
SENSITIVE_JSON_KEYS == {PASSWORD, TOKEN, ACCESS_TOKEN, REFRESH_TOKEN, SECRET}

REDACTED == "***redacted***"

\* The outcome of a helper that may raise: the exception's name, or "" and
\* the value returned.
Returns(v) == [raised |-> "", value |-> v]
Raises(exc) == [raised |-> exc, value |-> EmptyDict]

\* key.lower() in sensitive_keys, for a str key
IsSensitiveCaseSensitive(key, sensitive_keys) == key.chars \in sensitive_keys

IsSensitive(key, sensitive_keys) == Lower(key.chars) \in sensitive_keys

\* log.py 18-25.  key.lower() raises AttributeError on the first key that
\* is no str; the order of the keys does not change the outcome.
_redact_mapping(data, sensitive_keys) ==
    IF \E key \in DOMAIN data : key.type # "str"
    THEN Raises("AttributeError")
    ELSE Returns([key \in DOMAIN data |->
                    IF IsSensitive(key, sensitive_keys)
                    THEN REDACTED
                    ELSE data[key]])

---------------------------------------------------------------------------
(* httpx.Response, as far as the code reads it                             *)
(*                                                                         *)
(*   status_code                                                           *)
(*   url           str(response.url)                                       *)
(*   headers       ok: whether headers.get() works; has_content_type and   *)
(*                 content_type: the content-type header                   *)
(*   json          what response.json() does: ok (parses) or raises;       *)
(*                 is_dict and items (key, value pairs in received order)  *)
(*   text          what response.text does: ok and the characters, or      *)
(*                 raises                                                  *)

APPLICATION_JSON ==
    <<"a","p","p","l","i","c","a","t","i","o","n","/","j","s","o","n">>
TEXT_PLAIN == <<"t","e","x","t","/","p","l","a","i","n">>

\* response.headers.get("content-type", "")
ContentTypeOf(response) ==
    IF response.headers.has_content_type
    THEN response.headers.content_type
    ELSE << >>

NoJson == [ok |-> FALSE, is_dict |-> FALSE, items |-> << >>]
JsonDict(items) == [ok |-> TRUE, is_dict |-> TRUE, items |-> items]
JsonOther == [ok |-> TRUE, is_dict |-> FALSE, items |-> << >>]

\* A body preview {"type": ..., "preview": ...}.  preview is None
\* (is_none), the parsed JSON value, or the text.
PreviewJson(obj) ==
    [type |-> "json", is_none |-> FALSE, json |-> obj, text |-> << >>]
PreviewText(text) ==
    [type |-> "text", is_none |-> FALSE, json |-> NoJson, text |-> text]
PreviewUnknown ==
    [type |-> "unknown", is_none |-> TRUE, json |-> NoJson, text |-> << >>]

DEFAULT_MAX_LEN == 500

\* client.py 163-171, the body of the try.  "raised" is the exception that
\* leaves the try body, "" when it returns.
SafeBodyPreviewTry(response, max_len) ==
    IF ~response.headers.ok
    THEN [raised |-> "Exception", value |-> PreviewUnknown]
    ELSE IF Contains(Lower(ContentTypeOf(response)), APPLICATION_JSON)
    THEN IF response.json.ok
         THEN [raised |-> "", value |-> PreviewJson(response.json)]
         ELSE [raised |-> "JSONDecodeError", value |-> PreviewUnknown]
    ELSE IF ~response.text.ok
    THEN [raised |-> "Exception", value |-> PreviewUnknown]
    ELSE [raised |-> "",
          value |-> PreviewText(
                      IF Len(response.text.chars) > max_len
                      THEN Take(response.text.chars, max_len - 3) \o ELLIPSIS
                      ELSE response.text.chars)]

\* _safe_body_preview without its "except Exception"
SafeBodyPreviewUncaught(response, max_len) ==
    SafeBodyPreviewTry(response, max_len)

\* client.py 157-173: [raised, value]; the except clause turns every
\* exception of the try body into the "unknown" preview.
_safe_body_preview(response, max_len) ==
    LET r == SafeBodyPreviewTry(response, max_len)
    IN  IF r.raised # ""
        THEN [raised |-> "", value |-> PreviewUnknown]
        ELSE r

---------------------------------------------------------------------------
(* The transport (httpx.Client.request), as the code uses it               *)

\* What one call of self._client.request does: it raises exc, or returns
\* a response.
TransportRaises(exc) ==
    [kind |-> "error", exc |-> exc, status_code |-> 0,
     headers |-> [ok |-> TRUE, has_content_type |-> FALSE,
                  content_type |-> << >>],
     json |-> NoJson, text |-> [ok |-> TRUE, chars |-> << >>]]

TransportReturns(status_code, headers, json, text) ==
    [kind |-> "response", exc |-> "", status_code |-> status_code,
     headers |-> headers, json |-> json, text |-> text]

\* the exceptions of the transport that are httpx.RequestError
RequestErrors == {"ConnectError", "ReadTimeout"}

\* a closed httpx.Client refuses to send: RuntimeError, no RequestError
CLOSED_ERROR == "RuntimeError"

\* The URL the transport requests (response.url): an absolute url as it
\* is, any other url joined to base_url with a single "/".
ResolvedURL(base, url) ==
    IF StartsWith(url, HTTP) \/ StartsWith(url, HTTPS)
    THEN url
    ELSE (IF EndsWith(base, SLASH) THEN base ELSE base \o SLASH)
         \o (IF StartsWith(url, SLASH) THEN Tail(url) ELSE url)

\* params= as the transport encodes it: name=value, joined with "&", in
\* the order of the dict.  The names and values of the model consist of
\* letters, which need no percent-encoding.
RECURSIVE EncodedParams(_)
EncodedParams(params) ==
    IF params = << >>
    THEN << >>
    ELSE Head(params)[1] \o <<"=">> \o Head(params)[2]
         \o (IF Tail(params) = << >> THEN << >>
             ELSE <<"&">> \o EncodedParams(Tail(params)))

\* str(response.url): the resolved URL, followed by "?" and the encoded
\* params when params holds any
RequestURL(base, url, params) ==
    ResolvedURL(base, url)
    \o (IF params # << >> THEN <<"?">> \o EncodedParams(params) ELSE << >>)

NoResponse ==
    [status_code |-> 0, url |-> << >>,
     headers |-> [ok |-> TRUE, has_content_type |-> FALSE,
                  content_type |-> << >>],
     json |-> NoJson, text |-> [ok |-> TRUE, chars |-> << >>]]

ResponseOf(outcome, url) ==
    [status_code |-> outcome.status_code, url |-> url,
     headers |-> outcome.headers, json |-> outcome.json,
     text |-> outcome.text]

---------------------------------------------------------------------------
(* What a request gives its caller                                         *)

NoResult ==
    [kind |-> "none", response |-> NoResponse, message |-> << >>,
     original_exception |-> "", cause |-> "", status_code |-> 0,
     url |-> << >>, body |-> PreviewUnknown]

Returned(response) == [NoResult EXCEPT !.kind = "response",
                                       !.response = response]

\* an exception of another type than the package's, passing through
Propagated(exc) == [NoResult EXCEPT !.kind = exc]

ERROR_WHILE_REQUESTING ==
    <<"E","r","r","o","r"," ","w","h","i","l","e"," ",
      "r","e","q","u","e","s","t","i","n","g"," ">>

\* an APIRequestError whose message leaves the URL out
APIRequestErrorWithoutUrl(url, exc) ==
    [NoResult EXCEPT !.kind = "APIRequestError",
                     !.message = ERROR_WHILE_REQUESTING,
                     !.original_exception = exc,
                     !.cause = exc]

\* client.py 91 and exceptions.py 10-15:
\* raise APIRequestError(f"Error while requesting {url}", exc) from exc
APIRequestError(url, exc) ==
    [NoResult EXCEPT !.kind = "APIRequestError",
                     !.message = ERROR_WHILE_REQUESTING \o url,
                     !.original_exception = exc,
                     !.cause = exc]

DIGITS == <<"0","1","2","3","4","5","6","7","8","9">>

\* f"{status_code}" for a status code, which is not negative
RECURSIVE FormatInt(_)
FormatInt(n) ==
    IF n < 10
    THEN <<DIGITS[n + 1]>>
    ELSE FormatInt(n \div 10) \o <<DIGITS[(n % 10) + 1]>>

\* exceptions.py 28: f"HTTP {status_code} error"
HttpErrorMessage(status_code) ==
    <<"H","T","T","P"," ">> \o FormatInt(status_code)
    \o <<" ","e","r","r","o","r">>

\* client.py 94-98 and exceptions.py 18-31; message is the message
\* argument, "" when the caller gives none (as client.py does)
APIResponseError(status_code, message, url, body) ==
    [NoResult EXCEPT !.kind = "APIResponseError",
                     !.message = IF message # << >> THEN message
                                 ELSE HttpErrorMessage(status_code),
                     !.status_code = status_code,
                     !.url = url,
                     !.body = body]

\* exceptions.py 33-37: str() of an APIResponseError
APIResponseError_str(error) ==
    error.message
    \o (IF error.url # << >>
        THEN <<" ","(","u","r","l","=">> \o error.url \o <<")">>
        ELSE << >>)

NoJsonArg == [kind |-> "none", dict |-> EmptyDict]
JsonArgDict(d) == [kind |-> "dict", dict |-> d]
JsonArgOther == [kind |-> "other", dict |-> EmptyDict]

---------------------------------------------------------------------------
(* APIClient.request                                                       *)

\* client.py 74-78
MergedHeaders(headers) ==
    LET from_client == IF client_headers # EmptyDict
                       THEN Update(EmptyDict, client_headers)
                       ELSE EmptyDict
    IN  IF headers # EmptyDict
        THEN Update(from_client, headers)
        ELSE from_client

\* client.py 93 with the closed upper end 200 <= status_code <= 300
IsErrorStatusOffByOne(status_code) ==
    ~(200 <= status_code /\ status_code <= 300)

\* client.py 93
IsErrorStatus(status_code) == ~(200 <= status_code /\ status_code < 300)

\* client.py 81-89: the keyword arguments of self._client.request
\* (data and **kwargs are passed on untouched and are left out)
TransportCall(method, path, params, headers, json) ==
    [method |-> Upper(method), url |-> _build_url(path), params |-> params,
     headers |-> MergedHeaders(headers), json |-> json]

\* client.py 72-100: what the call gives its caller, for an outcome of the
\* one transport call it makes
APIClient_request(method, path, params, headers, json, outcome) ==
    LET url == _build_url(path)
        response == ResponseOf(outcome, RequestURL(base_url, url, params))
    IN  IF outcome.kind = "error"
        THEN IF outcome.exc \in RequestErrors
             THEN APIRequestError(url, outcome.exc)
             ELSE Propagated(outcome.exc)
        ELSE IF raise_for_status /\ IsErrorStatus(response.status_code)
        THEN LET preview == _safe_body_preview(response, DEFAULT_MAX_LEN)
             IN  IF preview.raised # ""
                 THEN Propagated(preview.raised)
                 ELSE APIResponseError(response.status_code, << >>,
                                       response.url, preview.value)
        ELSE Returned(response)

---------------------------------------------------------------------------
(* LoggedClient.request                                                    *)

NON_DICT_PLACEHOLDER == "<non-dict json payload>"
PREVIEW_ERROR == "could not read response body"
JSON_PREVIEW_KEYS == 10
TEXT_PREVIEW_LEN == 200

NoRecord ==
    [event |-> "", method |-> << >>, path |-> << >>, elapsed_ms |-> 0,
     has_params |-> FALSE, params |-> EmptyDict,
     has_request_headers |-> FALSE, request_headers |-> EmptyDict,
     request_json |-> [kind |-> "absent", dict |-> EmptyDict, text |-> ""],
     has_response_content_type |-> FALSE, response_content_type |-> << >>,
     response_preview |-> [kind |-> "absent", items |-> << >>,
                           text |-> << >>, note |-> ""],
     status_code |-> 0]

\* log.py 83-92: the value of extra["request_headers"], or the exception
LoggedRequestHeaders(headers) ==
    LET from_client == Update(EmptyDict, client_headers)
        combined_headers == IF headers # EmptyDict
                            THEN Update(from_client, headers)
                            ELSE from_client
    IN  _redact_mapping(combined_headers, SENSITIVE_HEADER_KEYS)

\* log.py 94-99: the value of extra["request_json"], or the exception
LoggedRequestJson(json) ==
    IF json.kind = "dict"
    THEN LET r == _redact_mapping(json.dict, SENSITIVE_JSON_KEYS)
         IN  [raised |-> r.raised,
              value |-> [kind |-> "dict", dict |-> r.value, text |-> ""]]
    ELSE [raised |-> "",
          value |-> [kind |-> "placeholder", dict |-> EmptyDict,
                     text |-> NON_DICT_PLACEHOLDER]]

\* log.py 101-117: the response fields of the record; every exception of
\* the try body ends in response_preview_error
LoggedResponsePreview(record, response) ==
    IF ~response.headers.ok
    THEN [record EXCEPT !.response_preview.kind = "error",
                        !.response_preview.note = PREVIEW_ERROR]
    ELSE LET content_type == ContentTypeOf(response)
             with_type == [record EXCEPT
                              !.has_response_content_type = TRUE,
                              !.response_content_type = content_type]
         IN  IF Contains(Lower(content_type), APPLICATION_JSON)
             THEN IF ~response.json.ok
                  THEN [with_type EXCEPT
                           !.response_preview.kind = "error",
                           !.response_preview.note = PREVIEW_ERROR]
                  ELSE IF response.json.is_dict
                  THEN [with_type EXCEPT
                           !.response_preview.kind = "json",
                           !.response_preview.items =
                               Take(response.json.items, JSON_PREVIEW_KEYS)]
                  ELSE [with_type EXCEPT
                           !.response_preview.kind = "json_placeholder",
                           !.response_preview.note = NON_DICT_PLACEHOLDER]
             ELSE IF ~response.text.ok
                  THEN [with_type EXCEPT
                           !.response_preview.kind = "error",
                           !.response_preview.note = PREVIEW_ERROR]
                  ELSE LET text == response.text.chars
                       IN  [with_type EXCEPT
                              !.response_preview.kind = "text",
                              !.response_preview.text =
                                  Take(text, TEXT_PREVIEW_LEN)
                                  \o (IF Len(text) > TEXT_PREVIEW_LEN
                                      THEN ELLIPSIS ELSE << >>)]

\* log.py 74-119: the record "extra" for a response, or the exception
\* that building it raises.  elapsed_ms is round(elapsed_ms, 2) in units
\* of 0.01 ms.
BuildRecord(method, path, params, headers, json, elapsed_ms, response) ==
    LET base == [NoRecord EXCEPT !.event = "api_call",
                                 !.method = Upper(method),
                                 !.path = path,
                                 !.elapsed_ms = elapsed_ms]
        with_params == IF params # EmptyDict
                       THEN [base EXCEPT !.has_params = TRUE,
                                         !.params = params]
                       ELSE base
        hdrs == LoggedRequestHeaders(headers)
        body == LoggedRequestJson(json)
    IN  IF log_headers /\ hdrs.raised # ""
        THEN [raised |-> hdrs.raised, value |-> NoRecord]
        ELSE IF log_body_preview /\ json.kind # "none" /\ body.raised # ""
        THEN [raised |-> body.raised, value |-> NoRecord]
        ELSE LET with_headers ==
                     IF log_headers
                     THEN [with_params EXCEPT
                              !.has_request_headers = TRUE,
                              !.request_headers = hdrs.value]
                     ELSE with_params
                 with_json ==
                     IF log_body_preview /\ json.kind # "none"
                     THEN [with_headers EXCEPT !.request_json = body.value]
                     ELSE with_headers
                 with_preview ==
                     IF log_body_preview
                     THEN LoggedResponsePreview(with_json, response)
                     ELSE with_json
             IN  [raised |-> "",
                  value |-> [with_preview EXCEPT
                                !.status_code = response.status_code]]

\* log.py 60-122: [result, logged, record].  result is what the call gives
\* its caller, logged whether logger.info("api_call", extra) was reached.
LoggedClient_request(method, path, params, headers, json, elapsed_ms, outcome) ==
    LET inner == APIClient_request(method, path, params, headers, json,
                                   outcome)
        extra == BuildRecord(method, path, params, headers, json,
                             elapsed_ms, inner.response)
    IN  IF inner.kind # "response"
        THEN [result |-> inner, logged |-> FALSE, record |-> NoRecord]
        ELSE IF extra.raised # ""
        THEN [result |-> Propagated(extra.raised), logged |-> FALSE,
              record |-> NoRecord]
        ELSE [result |-> inner, logged |-> TRUE, record |-> extra.value]

---------------------------------------------------------------------------
(* The state                                                               *)

NoCall ==
    [cls |-> "none", method |-> << >>, path |-> << >>, params |-> EmptyDict,
     headers |-> EmptyDict, json |-> NoJsonArg, elapsed_ms |-> 0,
     outcome |-> TransportRaises(""), in_scope |-> FALSE,
     wrapped |-> NoResult, logged |-> FALSE]

NothingSent ==
    [attempts |-> 0,
     request |-> [method |-> << >>, url |-> << >>, params |-> EmptyDict,
                  headers |-> EmptyDict, json |-> NoJsonArg]]

NoScope ==
    [state |-> "outside", target |-> "", exc |-> "", exit_returned |-> "",
     propagates |-> ""]

NoProbe == [path |-> << >>, applied |-> 0, once |-> << >>, twice |-> << >>]

\* client.py 24-45 and log.py 38-47: the client after construction
Constructed(base, headers, rfs, lh, lbp) ==
    /\ base_arg = base
    /\ headers_arg = headers
    /\ base_url = StoredBaseUrl(base)
    /\ client_headers = TransportHeaders(headers)
    /\ raise_for_status = rfs
    /\ log_headers = lh
    /\ log_body_preview = lbp
    /\ closed = FALSE
    /\ scope = NoScope
    /\ call = NoCall
    /\ sent = NothingSent
    /\ result = NoResult
    /\ calls = 0
    /\ wrapped_ok = 0
    /\ emitted = 0
    /\ last_record = NoRecord

---------------------------------------------------------------------------
(* Operations                                                              *)

\* what the transport can do with a call: a closed client only refuses
OutcomePossible(outcome) ==
    closed <=> (outcome.kind = "error" /\ outcome.exc = CLOSED_ERROR)

\* client.py 80-89: self._client.request is called once per request
TransportAttempts(outcome) == 1

\* APIClient.request(method, path, params=, headers=, json=)
APIClientRequest(method, path, params, headers, json, outcome) ==
    /\ OutcomePossible(outcome)
    /\ call' = [NoCall EXCEPT !.cls = "APIClient", !.method = method,
                              !.path = path, !.params = params,
                              !.headers = headers, !.json = json,
                              !.outcome = outcome,
                              !.in_scope = (scope.state = "inside")]
    /\ sent' = [attempts |-> TransportAttempts(outcome),
                request |-> TransportCall(method, path, params, headers,
                                          json)]
    /\ result' = APIClient_request(method, path, params, headers, json,
                                   outcome)
    /\ UNCHANGED << client_vars, closed, scope, calls, wrapped_ok, emitted,
                    last_record, probe >>

\* LoggedClient.request(method, path, params=, headers=, json=); elapsed_ms
\* is what the clock measured
LoggedClientRequest(method, path, params, headers, json, elapsed_ms, outcome) ==
    LET inner == APIClient_request(method, path, params, headers, json,
                                   outcome)
        r == LoggedClient_request(method, path, params, headers, json,
                                  elapsed_ms, outcome)
    IN  /\ calls < MaxCalls
        /\ OutcomePossible(outcome)
        /\ call' = [NoCall EXCEPT !.cls = "LoggedClient", !.method = method,
                                  !.path = path, !.params = params,
                                  !.headers = headers, !.json = json,
                                  !.elapsed_ms = elapsed_ms,
                                  !.outcome = outcome,
                                  !.in_scope = (scope.state = "inside"),
                                  !.wrapped = inner,
                                  !.logged = r.logged]
        /\ sent' = [attempts |-> TransportAttempts(outcome),
                    request |-> TransportCall(method, path, params, headers,
                                              json)]
        /\ result' = r.result
        /\ calls' = calls + 1
        /\ wrapped_ok' = wrapped_ok + (IF inner.kind = "response" THEN 1
                                       ELSE 0)
        /\ emitted' = emitted + (IF r.logged THEN 1 ELSE 0)
        /\ last_record' = IF r.logged THEN r.record ELSE last_record
        /\ UNCHANGED << client_vars, closed, scope, probe >>

\* client.py 146-148
Close ==
    /\ ~closed
    /\ closed' = TRUE
    /\ UNCHANGED << client_vars, scope, request_vars, probe >>

\* client.py 150-151: what "with client as target" binds
__enter__ == "self"

\* an __exit__ that closes only when the body completed
ExitClosesOnSuccess(exc) == exc = ""

\* client.py 153-154: __exit__ calls self.close() and returns None
ExitCloses(exc) == TRUE

ExitReturns(exc) == "None"

\* the with statement: an exception of the body goes on to the caller
\* unless __exit__ returned a true value
Truthy(v) == v \notin {"None", "False"}

ScopeEnter ==
    /\ scope.state = "outside"
    /\ scope' = [scope EXCEPT !.state = "inside", !.target = __enter__]
    /\ UNCHANGED << client_vars, closed, request_vars, probe >>

\* leaving the body: exc is "" when the body completed, or the exception
\* the body ended with
__exit__(exc) ==
    /\ scope.state = "inside"
    /\ closed' = (closed \/ ExitCloses(exc))
    /\ scope' = [scope EXCEPT
                    !.state = "exited", !.exc = exc,
                    !.exit_returned = ExitReturns(exc),
                    !.propagates = IF exc # "" /\ ~Truthy(ExitReturns(exc))
                                   THEN exc ELSE ""]
    /\ UNCHANGED << client_vars, request_vars, probe >>

\* the body of the with statement completes
ScopeExitNormally == __exit__("")

\* a request made in the body raised, and the body did not catch it
ScopeExitByError ==
    /\ call.in_scope
    /\ result.kind \notin {"none", "response"}
    /\ __exit__(result.kind)

\* _build_url(path) on its own, then on its own result
BuildUrl ==
    /\ probe.applied = 0
    /\ probe' = [probe EXCEPT !.applied = 1, !.once = _build_url(probe.path)]
    /\ UNCHANGED << client_vars, closed, scope, request_vars >>

BuildUrlAgain ==
    /\ probe.applied = 1
    /\ probe' = [probe EXCEPT !.applied = 2, !.twice = _build_url(probe.once)]
    /\ UNCHANGED << client_vars, closed, scope, request_vars >>

---------------------------------------------------------------------------
(* Inputs                                                                  *)

\* the sequences over chars of length at most n
RECURSIVE SeqsUpTo(_, _)
SeqsUpTo(chars, n) ==
    IF n = 0
    THEN {<< >>}
    ELSE LET shorter == SeqsUpTo(chars, n - 1)
         IN  shorter \cup {Append(s, c) : s \in shorter, c \in chars}

\* n copies of c
Repeat(c, n) == [i \in 1..n |-> c]

\* the mappings from at most n of the keys to the values
Mappings(keys, values, n) ==
    UNION {[K -> values] : K \in {S \in SUBSET keys : Cardinality(S) <= n}}

PathPrefixes ==
    {<< >>, SLASH, HTTP, HTTPS, Upper(HTTP), Upper(HTTPS), DropLast(HTTP),
     DropLast(HTTPS), <<"h">>, <<"f","t","p",":","/","/">>}

\* the paths _build_url is applied to on its own
Paths == {prefix \o tail : prefix \in PathPrefixes,
                           tail \in SeqsUpTo({"a", "/"}, MaxTail)}

\* the paths of requests
RequestPaths == {<<"t">>, <<"/","t">>, HTTPS \o <<"b","/","t">>}

HOST == HTTPS \o <<"a">>

\* the base_url arguments: a host followed by trailing slashes
BaseUrls == {HOST \o Repeat("/", n) : n \in 0..MaxSlashes}

Methods == {<<"g","e","t">>, <<"P","O","S","T">>}

X_A == <<"X","-","A">>

HeaderKeys ==
    {StrKey(X_A), StrKey(Lower(X_A)),
     StrKey(<<"A">> \o Tail(AUTHORIZATION)),
     StrKey(Upper(PROXY_AUTHORIZATION))}

\* no two names of the mapping differ in case only
NoFoldedDuplicates(headers) ==
    \A j, k \in DOMAIN headers : StoreName(j) = StoreName(k) => j = k

\* headers= of __init__
DefaultHeaders ==
    {h \in Mappings(HeaderKeys, {"1"}, MaxKeys) : NoFoldedDuplicates(h)}

\* headers= of request
CallHeaders == Mappings(HeaderKeys, {"2"}, MaxKeys)

JsonKeys ==
    {StrKey(Upper(PASSWORD)), StrKey(<<"n","a","m","e">>),
     StrKey(<<"T">> \o Tail(TOKEN)), IntKey(<<"1">>)}

\* json= of request: None, a dict, or a value that is no dict
JsonArgs ==
    {NoJsonArg, JsonArgOther}
    \cup {JsonArgDict(d) : d \in Mappings(JsonKeys, {"p"}, MaxKeys)}

\* params= of request: the items of the dict in their order, each a
\* (name, value) pair of str
ParamArgs ==
    {<< >>, << <<<<"q">>, <<"v">>>> >>,
     << <<<<"q">>, <<"v">>>>, <<<<"r">>, <<"w">>>> >>}

StatusCodes == {199, 200, 201, 299, 300, 404, 500}

ContentType(chars) ==
    [ok |-> TRUE, has_content_type |-> TRUE, content_type |-> chars]
NoContentType ==
    [ok |-> TRUE, has_content_type |-> FALSE, content_type |-> << >>]
BrokenHeaders ==
    [ok |-> FALSE, has_content_type |-> FALSE, content_type |-> << >>]

Text(chars) == [ok |-> TRUE, chars |-> chars]
BrokenText == [ok |-> FALSE, chars |-> << >>]

ID_1 == << <<StrKey(<<"i","d">>), "1">> >>

\* a JSON object of n keys k, kk, kkk, ...
JsonObject(n) == JsonDict([i \in 1..n |-> <<StrKey(Repeat("k", i)), "v">>])

\* responses of every shape _safe_body_preview tells apart
PreviewResponses ==
    {TransportReturns(status, headers, json, text) :
        status \in StatusCodes,
        headers \in {NoContentType, BrokenHeaders, ContentType(TEXT_PLAIN),
                     ContentType(APPLICATION_JSON),
                     ContentType(Upper(APPLICATION_JSON)),
                     ContentType(APPLICATION_JSON \o <<";"," ","x">>),
                     ContentType(DropLast(APPLICATION_JSON))},
        json \in {NoJson, JsonDict(ID_1), JsonOther},
        text \in {Text(<< >>), Text(<<"a","b","c">>), BrokenText,
                  Text(Repeat("x", DEFAULT_MAX_LEN)),
                  Text(Repeat("x", DEFAULT_MAX_LEN + 1))}}

\* the responses of the logging runs
LoggedResponses ==
    {TransportReturns(status, ContentType(APPLICATION_JSON), json,
                      Text(<< >>)) :
        status \in {201, 404},
        json \in {NoJson, JsonDict(ID_1), JsonOther,
                  JsonObject(JSON_PREVIEW_KEYS + 1)}}
    \cup
    {TransportReturns(status, ContentType(TEXT_PLAIN), NoJson, text) :
        status \in {201, 404},
        text \in {Text(<<"a","b","c">>),
                  Text(Repeat("x", TEXT_PREVIEW_LEN + 1))}}

OK_RESPONSE ==
    TransportReturns(200, ContentType(APPLICATION_JSON), JsonDict(ID_1),
                     Text(<< >>))
NOT_FOUND_RESPONSE ==
    TransportReturns(404, ContentType(TEXT_PLAIN), NoJson,
                     Text(<<"a","b","c">>))

Failures == {TransportRaises(exc) : exc \in RequestErrors}

Refusal == TransportRaises(CLOSED_ERROR)

---------------------------------------------------------------------------
(* Spec: the life of a client.  Construction with every base_url argument, *)
(* sequences of requests of both classes, close, and one with statement.   *)

Init ==
    /\ \E base \in BaseUrls \cup {<< >>}, rfs \in BOOLEAN :
          Constructed(base, EmptyDict, rfs, TRUE, TRUE)
    /\ probe = NoProbe

LifeOutcomes ==
    {TransportRaises("ConnectError"), OK_RESPONSE, NOT_FOUND_RESPONSE,
     Refusal}

LifeJsonArgs ==
    {NoJsonArg, JsonArgDict([k \in {StrKey(PASSWORD)} |-> "p"]),
     JsonArgDict([k \in {IntKey(<<"1">>)} |-> "p"])}

Next ==
    \/ \E outcome \in LifeOutcomes :
          APIClientRequest(<<"g","e","t">>, <<"t">>, EmptyDict, EmptyDict,
                           NoJsonArg, outcome)
    \/ \E json \in LifeJsonArgs, outcome \in LifeOutcomes :
          LoggedClientRequest(<<"p","o","s","t">>, <<"/","t">>, EmptyDict,
                              EmptyDict, json, 0, outcome)
    \/ Close
    \/ ScopeEnter
    \/ ScopeExitNormally
    \/ ScopeExitByError

Spec == Init /\ [][Next]_vars

---------------------------------------------------------------------------
(* The specifications below make one call from the constructed client.  A *)
(* request leaves everything a later request reads as it was (the client's *)
(* attributes and the transport handle), so what holds of the first        *)
(* request of a client holds of every one.                                 *)

Fresh == call.cls = "none"

---------------------------------------------------------------------------
(* SpecURL: _build_url on its own.                                         *)

InitURL ==
    /\ Constructed(HOST, EmptyDict, TRUE, TRUE, TRUE)
    /\ \E path \in Paths : probe = [NoProbe EXCEPT !.path = path]

NextURL == BuildUrl \/ BuildUrlAgain

SpecURL == InitURL /\ [][NextURL]_vars

---------------------------------------------------------------------------
(* SpecStatus: APIClient.request over the outcomes of the transport.       *)

InitStatus ==
    /\ \E base \in {HOST, HOST \o SLASH}, rfs \in BOOLEAN :
          Constructed(base, EmptyDict, rfs, TRUE, TRUE)
    /\ probe = NoProbe

NextStatus ==
    /\ Fresh
    /\ \E method \in Methods, path \in RequestPaths,
          outcome \in Failures \cup PreviewResponses :
          APIClientRequest(method, path, EmptyDict, EmptyDict, NoJsonArg,
                           outcome)

SpecStatus == InitStatus /\ [][NextStatus]_vars

---------------------------------------------------------------------------
(* SpecHeaders: default and per-call headers and payloads.                 *)

InitHeaders ==
    /\ \E headers \in DefaultHeaders, lh \in BOOLEAN, lbp \in BOOLEAN :
          Constructed(HOST, headers, TRUE, lh, lbp)
    /\ probe = NoProbe

NextHeaders ==
    \/ /\ Fresh
       /\ \E headers \in CallHeaders :
             APIClientRequest(<<"g","e","t">>, <<"t">>, EmptyDict, headers,
                              NoJsonArg, OK_RESPONSE)
    \/ /\ Fresh
       /\ \E headers \in CallHeaders, json \in JsonArgs :
             LoggedClientRequest(<<"P","O","S","T">>, <<"t">>, EmptyDict,
                                 headers, json, 0, OK_RESPONSE)

SpecHeaders == InitHeaders /\ [][NextHeaders]_vars

---------------------------------------------------------------------------
(* SpecLog: LoggedClient.request over arguments, flags and outcomes.       *)

InitLog ==
    /\ \E rfs \in BOOLEAN, lh \in BOOLEAN, lbp \in BOOLEAN :
          Constructed(HOST, [k \in {StrKey(X_A)} |-> "1"], rfs, lh, lbp)
    /\ probe = NoProbe

NextLog ==
    /\ Fresh
    /\ \E method \in Methods, params \in ParamArgs,
          headers \in {EmptyDict, [k \in {StrKey(AUTHORIZATION)} |-> "2"]},
          json \in JsonArgs, elapsed_ms \in 0..MaxElapsed,
          outcome \in Failures \cup LoggedResponses :
          LoggedClientRequest(method, <<"/","t">>, params, headers, json,
                              elapsed_ms, outcome)

SpecLog == InitLog /\ [][NextLog]_vars

---------------------------------------------------------------------------
(* Properties                                                              *)

GotResponse == call.cls # "none" /\ call.outcome.kind = "response"

TransportFailed ==
    call.cls # "none" /\ call.outcome.kind = "error"
                      /\ call.outcome.exc \in RequestErrors

\* the response handed back is the transport's
SameResponse ==
    /\ result.response.status_code = call.outcome.status_code
    /\ result.response.headers = call.outcome.headers
    /\ result.response.json = call.outcome.json
    /\ result.response.text = call.outcome.text

\* C1 (SpecStatus): with raise_for_status, a response with a status code in
\* [200, 300) is returned and any other status code raises APIResponseError
\* carrying that status code; without raise_for_status every response is
\* returned, whatever its status code.
C1_StatusTranslation ==
    (call.cls = "APIClient" /\ GotResponse) =>
        IF raise_for_status /\ call.outcome.status_code \notin 200..299
        THEN /\ result.kind = "APIResponseError"
             /\ result.status_code = call.outcome.status_code
        ELSE /\ result.kind = "response"
             /\ SameResponse

C1_Witness ==
    /\ call.cls = "APIClient"
    /\ raise_for_status
    /\ call.outcome.kind = "response"
    /\ call.outcome.status_code = 300
    /\ result.kind = "APIResponseError"
    /\ result.status_code = 300

\* C2 as stated (SpecStatus): when the transport raises a network-layer
\* failure, the caller gets an APIRequestError whose message contains the
\* resolved URL of the request and whose cause and original_exception are
\* that failure, after a single transport attempt.
C2_MessageHasResolvedUrl ==
    TransportFailed =>
        /\ result.kind = "APIRequestError"
        /\ Contains(result.message,
                    RequestURL(base_url, sent.request.url,
                               sent.request.params))
        /\ result.cause = call.outcome.exc
        /\ result.original_exception = call.outcome.exc
        /\ sent.attempts = 1

\* C2 amended (SpecStatus): when the transport raises a network-layer
\* failure, the caller gets an APIRequestError (never an APIResponseError)
\* whose message contains the URL that URL composition produced and the
\* transport was handed (an absolute path as it is, any other path as a
\* server-relative path starting with "/", not joined to the base URL),
\* and whose cause and original_exception are that failure, after a single
\* transport attempt.
C2_MessageHasComposedUrl ==
    TransportFailed =>
        /\ result.kind = "APIRequestError"
        /\ Contains(result.message, sent.request.url)
        /\ \/ sent.request.url = call.path
           \/ sent.request.url = SLASH \o call.path
        /\ result.cause = call.outcome.exc
        /\ result.original_exception = call.outcome.exc
        /\ sent.attempts = 1

C2_Witness ==
    /\ TransportFailed
    /\ call.path = <<"t">>
    /\ result.kind = "APIRequestError"
    /\ Contains(result.message, <<"/","t">>)
    /\ ~Contains(result.message, base_url)
    /\ result.cause = "ConnectError"

\* C3 as stated (Spec): a base_url argument ending in one or more slashes
\* loses exactly one of them at construction, and the stored base_url never
\* ends with "/", whatever operations follow.
C3_NeverEndsWithSlash ==
    /\ EndsWith(base_arg, SLASH) => base_url \o SLASH = base_arg
    /\ ~EndsWith(base_url, SLASH)

\* C3 amended (Spec): a base_url argument ending in one or more slashes
\* loses exactly one of them at construction, any other argument is stored
\* as it is, so the stored base_url ends with "/" exactly when the argument
\* ended with two or more slashes; no later operation changes it.
C3_OneSlashStripped ==
    /\ EndsWith(base_arg, SLASH) => base_url \o SLASH = base_arg
    /\ ~EndsWith(base_arg, SLASH) => base_url = base_arg
    /\ EndsWith(base_url, SLASH) <=> EndsWith(base_arg, SLASH \o SLASH)

C3_Witness ==
    /\ base_arg = HOST \o SLASH \o SLASH
    /\ base_url = HOST \o SLASH
    /\ closed
    /\ result.kind = "response"
    /\ scope.state = "exited"

\* C4 (SpecHeaders): the headers handed to the transport hold every
\* per-call header with its value and every header name of the default
\* headers given at construction; for a key of both mappings the per-call
\* value is the only one handed over: no spelling of that name carries
\* another value.
C4_RightBiasedMerge ==
    call.cls # "none" =>
        LET merged == sent.request.headers
        IN  /\ \A k \in DOMAIN call.headers :
                  k \in DOMAIN merged /\ merged[k] = call.headers[k]
            /\ \A k \in DOMAIN headers_arg :
                  \E j \in DOMAIN merged : Lower(j.chars) = Lower(k.chars)
            /\ \A k \in (DOMAIN headers_arg) \cap (DOMAIN call.headers) :
                  \A j \in DOMAIN merged :
                      Lower(j.chars) = Lower(k.chars) =>
                          merged[j] = call.headers[k]

\* C5 (SpecURL): _build_url returns a path starting with "http://",
\* "https://" or "/" as it is and any other path with "/" in front, so its
\* result starts with one of the three, and _build_url of its result is
\* that result.
C5_BuildUrl ==
    /\ probe.applied >= 1 =>
          /\ IF \/ StartsWith(probe.path, HTTP)
                \/ StartsWith(probe.path, HTTPS)
                \/ StartsWith(probe.path, SLASH)
             THEN probe.once = probe.path
             ELSE probe.once = SLASH \o probe.path
          /\ \/ StartsWith(probe.once, HTTP)
             \/ StartsWith(probe.once, HTTPS)
             \/ StartsWith(probe.once, SLASH)
    /\ probe.applied = 2 => probe.twice = probe.once

C5_Witness ==
    /\ probe.applied = 2
    /\ StartsWith(probe.path, Upper(HTTP))
    /\ probe.once = SLASH \o probe.path
    /\ probe.twice = probe.once

\* the record's mapping is data with the values of the keys whose
\* lower-cased form is sensitive replaced by the marker
RedactionOf(redacted, data, sensitive) ==
    /\ DOMAIN redacted = DOMAIN data
    /\ \A k \in DOMAIN data :
          redacted[k] = IF \E s \in sensitive : Lower(k.chars) = s
                        THEN "***redacted***"
                        ELSE data[k]

\* C6 (SpecHeaders): in an emitted record, request_headers has the keys of
\* the client's headers merged with the per-call headers and request_json
\* the keys of a dict payload; a key whose lower-cased form is sensitive
\* maps to "***redacted***" and every other key to its value.  With
\* header logging off the record holds no header at all.
C6_Redaction ==
    call.logged =>
        /\ IF log_headers
           THEN /\ last_record.has_request_headers
                /\ RedactionOf(last_record.request_headers,
                               Update(client_headers, call.headers),
                               {AUTHORIZATION, PROXY_AUTHORIZATION})
           ELSE /\ ~last_record.has_request_headers
                /\ last_record.request_headers = EmptyDict
        /\ IF log_body_preview /\ call.json.kind = "dict"
           THEN /\ last_record.request_json.kind = "dict"
                /\ RedactionOf(last_record.request_json.dict,
                               call.json.dict,
                               {PASSWORD, TOKEN, ACCESS_TOKEN, REFRESH_TOKEN,
                                SECRET})
           ELSE last_record.request_json.dict = EmptyDict

C6_Witness ==
    LET auth == StrKey(<<"A">> \o Tail(AUTHORIZATION))
        pass == StrKey(Upper(PASSWORD))
        name == StrKey(<<"n","a","m","e">>)
        x_a  == StrKey(X_A)
    IN  /\ call.logged
        /\ DOMAIN call.headers = {auth, x_a}
        /\ last_record.has_request_headers
        /\ last_record.request_headers[auth] = REDACTED
        /\ last_record.request_headers[x_a] = "2"
        /\ DOMAIN call.json.dict = {pass, name}
        /\ DOMAIN last_record.request_json.dict = {pass, name}
        /\ last_record.request_json.dict[pass] = REDACTED
        /\ last_record.request_json.dict[name] = "p"

DeclaredJson(outcome) ==
    /\ outcome.headers.has_content_type
    /\ Contains(Lower(outcome.headers.content_type), APPLICATION_JSON)

\* C7 (SpecStatus): with raise_for_status, every response with a status code
\* outside [200, 300) ends in APIResponseError, never in an error of the
\* preview; its body is kind json with the parsed value when the content
\* type says JSON (in any case) and the body parses, kind unknown with None
\* when a header, parsing or decoding step fails, and otherwise kind text,
\* of at most 500 characters.
C7_PreviewNeverRaises ==
    (GotResponse /\ raise_for_status
        /\ call.outcome.status_code \notin 200..299) =>
        LET o == call.outcome
            b == result.body
        IN  /\ result.kind = "APIResponseError"
            /\ b.type \in {"json", "text", "unknown"}
            /\ IF ~o.headers.ok
               THEN b.type = "unknown" /\ b.is_none
               ELSE IF DeclaredJson(o)
               THEN IF o.json.ok
                    THEN b.type = "json" /\ b.json = o.json
                    ELSE b.type = "unknown" /\ b.is_none
               ELSE IF o.text.ok
               THEN /\ b.type = "text"
                    /\ Len(b.text) <= 500
                    /\ Len(o.text.chars) <= 500 => b.text = o.text.chars
               ELSE b.type = "unknown" /\ b.is_none

C7_Witness ==
    /\ GotResponse
    /\ call.outcome.status_code = 500
    /\ call.outcome.headers.content_type = Upper(APPLICATION_JSON)
    /\ ~call.outcome.json.ok
    /\ result.kind = "APIResponseError"
    /\ result.body.type = "unknown"
    /\ result.body.is_none

\* C8 (SpecLog): LoggedClient.request returns the response exactly when
\* APIClient.request returns it for the same arguments and transport
\* outcome, and raises the same error exactly when APIClient.request raises
\* it; building the log record adds no error of its own.
C8_SameOutcomeAsWrapped ==
    call.cls = "LoggedClient" => result = call.wrapped

\* C9 (Spec): entering the scope gives the client itself; once the scope
\* is left the transport handle is closed, whether the body completed or
\* ended with an error, and that error goes on to the caller.
C9_ScopeCloses ==
    /\ scope.state # "outside" => scope.target = "self"
    /\ scope.state = "exited" =>
          /\ closed
          /\ scope.propagates = scope.exc

C9_Witness ==
    /\ scope.state = "exited"
    /\ scope.exc = "APIResponseError"
    /\ scope.propagates = "APIResponseError"
    /\ closed

\* C10 (Spec): a LoggedClient.request call whose wrapped request returns a
\* response emits one "api_call" record with the upper-cased method, the
\* path and the response's status code, and returns that response; a call
\* whose wrapped request raises emits none and raises that error; so the
\* records emitted are as many as the calls whose request returned.
C10_OneRecordPerReturn ==
    /\ call.cls = "LoggedClient" =>
          IF call.wrapped.kind = "response"
          THEN /\ call.logged
               /\ last_record.event = "api_call"
               /\ last_record.method = Upper(call.method)
               /\ last_record.path = call.path
               /\ last_record.status_code = call.outcome.status_code
               /\ result = call.wrapped
          ELSE /\ ~call.logged
               /\ result = call.wrapped
    /\ emitted = wrapped_ok

=============================================================================
